---- MODULE Spec2Model ----
(***************************************************************************)
(* Model of the ceph-mgr "selftest" module (src/mgr/selftest/module.py).   *)
(*                                                                         *)
(* Two threads of control share two fields of the Module object:           *)
(*   _workload  the desired background workload (None or a string)         *)
(*   _event     a threading.Event                                          *)
(* The serve() thread (the Coordinator) reads them; handle_command() and   *)
(* shutdown() (the Control Surface, one call at a time) write them.        *)
(* Every read or write of a shared field is one step of its thread.        *)
(***************************************************************************)
EXTENDS Integers, Sequences, FiniteSets, TLC

VARIABLES
    workload,     \* self._workload
    event,        \* self._event (TRUE = set)
    pc,           \* position of the serve() thread
    inflight,     \* commands sent with send_command whose result.wait() has not returned
    r,            \* status of the last awaited command result (local r of _command_spam)
    cpc,          \* position of the control thread inside handle_command()/shutdown()
    arg,          \* command['workload'] / command['key'] of the call in progress
    was_running,  \* local was_running of handle_command (stop branch)
    ret,          \* outcome of the last completed control call
    pre,          \* history: value of _workload when the current/last control call was entered
    open,         \* TRUE while the host still dispatches control calls
    since         \* history: commands sent since the last stop set the event
                  \* (NotTracked before any such stop and after a later start)

vars == <<workload, event, pc, inflight, r, cpc, arg, was_running, ret, pre, open, since>>

coordVars == <<pc, inflight, r>>
ctlVars == <<cpc, arg, was_running, ret, pre, open>>

----------------------------------------------------------------------------
(* Class constants, module.py:22-26 *)

None == "<None>"
WORKLOAD_COMMAND_SPAM == "command_spam"
WORKLOAD_THROW_EXCEPTION == "throw_exception"
SHUTDOWN == "shutdown"
WORKLOADS == {WORKLOAD_COMMAND_SPAM, WORKLOAD_THROW_EXCEPTION}

EINVAL == 22

\* Value of the history variable since while no stop is being followed
NotTracked == 0 - 1

\* The history variable since counts up to here
MaxSends == 2

\* Workload names a caller may pass to "background start": the registry, the
\* reserved name "shutdown", an unknown name and the empty string.
WorkloadNames == {WORKLOAD_COMMAND_SPAM, WORKLOAD_THROW_EXCEPTION, SHUTDOWN, "bogus", ""}

\* Python truthiness of a value of _workload (None and "" are falsy).
Truthy(w) == w # None /\ w # ""

\* Status values a submitted command's result may carry.
CommandStatuses == {0, -EINVAL}

----------------------------------------------------------------------------
(* Results of control calls.  kind is "tuple" for a returned                *)
(* (status, outb, outs), "none" for shutdown()'s return, "raise" when the  *)
(* call ends by an exception leaving handle_command.                       *)

Returned(op, a, status, outb, outs) ==
    [op |-> op, arg |-> a, kind |-> "tuple", status |-> status,
     outb |-> outb, outs |-> outs, exc |-> None]

Raised(op, a, exc) ==
    [op |-> op, arg |-> a, kind |-> "raise", status |-> 0,
     outb |-> "", outs |-> <<>>, exc |-> exc]

Ended(op) ==
    [op |-> op, arg |-> None, kind |-> "none", status |-> 0,
     outb |-> "", outs |-> <<>>, exc |-> None]

NoResult == Ended(None)

\* The control thread finishes a call with result res.
Finish(res) ==
    /\ ret' = res
    /\ cpc' = "ready"
    /\ arg' = None
    /\ was_running' = None

\* The control thread enters a call.
Enter ==
    /\ cpc = "ready"
    /\ open
    /\ pre' = workload

----------------------------------------------------------------------------
Init ==
    /\ workload = None
    /\ event = FALSE
    /\ pc = "top"
    /\ inflight = 0
    /\ r = 0
    /\ cpc = "ready"
    /\ arg = None
    /\ was_running = None
    /\ ret = NoResult
    /\ pre = None
    /\ open = TRUE
    /\ since = NotTracked

----------------------------------------------------------------------------
(* handle_command: "mgr self-test background start", module.py:80-86 *)

InRegistryOrShutdown(name) == name \in WORKLOADS \cup {SHUTDOWN}

\* line 81: command['workload'] in self.WORKLOADS
InRegistry(name) == name \in WORKLOADS

\* lines 81-83: the name is not in the registry
StartRejected(name) ==
    /\ Enter
    /\ ~InRegistry(name)
    /\ Finish(Returned("start", name, -EINVAL, "", <<"Workload not found", name>>))
    /\ UNCHANGED <<since, workload, event, coordVars, open>>

\* lines 81, 84: the name is in the registry; self._workload is written
StartWrite(name) ==
    /\ Enter
    /\ InRegistry(name)
    /\ arg' = name
    /\ workload' = name
    /\ cpc' = "start_set"
    /\ since' = NotTracked
    /\ UNCHANGED <<event, coordVars, was_running, ret, open>>

StartSignalOmitted ==
    /\ cpc = "start_set"
    /\ Finish(Returned("start", arg, 0, "", <<"Running in background", workload>>))
    /\ UNCHANGED <<since, workload, event, coordVars, pre, open>>

\* lines 85-86: self._event.set(), then the message is formatted from self._workload
StartSignal ==
    /\ cpc = "start_set"
    /\ event' = TRUE
    /\ Finish(Returned("start", arg, 0, "", <<"Running in background", workload>>))
    /\ UNCHANGED <<since, workload, coordVars, pre, open>>

----------------------------------------------------------------------------
(* handle_command: "mgr self-test background stop", module.py:88-96 *)

StopWriteCaptureLate ==
    /\ Enter
    /\ Truthy(workload)
    /\ workload' = None
    /\ was_running' = workload'
    /\ arg' = None
    /\ cpc' = "stop_set"
    /\ UNCHANGED <<since, event, coordVars, ret, open>>

\* lines 89-91: a workload is set; it is captured and self._workload becomes None
StopWrite ==
    /\ Enter
    /\ Truthy(workload)
    /\ was_running' = workload
    /\ workload' = None
    /\ arg' = None
    /\ cpc' = "stop_set"
    /\ UNCHANGED <<since, event, coordVars, ret, open>>

StopSignalOmitted ==
    /\ cpc = "stop_set"
    /\ Finish(Returned("stop", None, 0, "", <<"Stopping background workload", was_running>>))
    /\ since' = 0
    /\ UNCHANGED <<workload, event, coordVars, pre, open>>

StopSignalWaitsForBody ==
    /\ cpc = "stop_set"
    /\ pc \notin {"spam_check", "spam_send", "spam_wait"}
    /\ event' = TRUE
    /\ Finish(Returned("stop", None, 0, "", <<"Stopping background workload", was_running>>))
    /\ since' = 0
    /\ UNCHANGED <<workload, coordVars, pre, open>>

\* lines 92-94: self._event.set() and the confirmation naming was_running
StopSignal ==
    /\ cpc = "stop_set"
    /\ event' = TRUE
    /\ Finish(Returned("stop", None, 0, "", <<"Stopping background workload", was_running>>))
    /\ since' = 0
    /\ UNCHANGED <<workload, coordVars, pre, open>>

StopNoopFails ==
    /\ Enter
    /\ ~Truthy(workload)
    /\ Finish(Returned("stop", None, -EINVAL, "", <<"No background workload was running">>))
    /\ UNCHANGED <<since, workload, event, coordVars, open>>

StopNoopSignals ==
    /\ Enter
    /\ ~Truthy(workload)
    /\ event' = TRUE
    /\ Finish(Returned("stop", None, 0, "", <<"No background workload was running">>))
    /\ UNCHANGED <<since, workload, coordVars, open>>

\* lines 89, 95-96: nothing is set
StopNoop ==
    /\ Enter
    /\ ~Truthy(workload)
    /\ Finish(Returned("stop", None, 0, "", <<"No background workload was running">>))
    /\ UNCHANGED <<since, workload, event, coordVars, open>>

----------------------------------------------------------------------------
(* shutdown(), module.py:251-253.  The host calls it like a control call. *)

\* line 252
ShutdownWrite ==
    /\ Enter
    /\ arg' = None
    /\ workload' = SHUTDOWN
    /\ cpc' = "shutdown_set"
    /\ UNCHANGED <<since, event, coordVars, was_running, ret, open>>

\* line 253
ShutdownSignal ==
    /\ cpc = "shutdown_set"
    /\ event' = TRUE
    /\ Finish(Ended("shutdown"))
    /\ UNCHANGED <<since, workload, coordVars, pre, open>>

\* The host stops dispatching control calls (no later control command).
HostCloses ==
    /\ cpc = "ready"
    /\ open
    /\ open' = FALSE
    /\ UNCHANGED <<since, workload, event, coordVars, cpc, arg, was_running, ret, pre>>

----------------------------------------------------------------------------
(* handle_command: "mgr self-test run", module.py:76-78 and 108-216.       *)
(* The host API is an external collaborator: what it answers is an input.  *)

StoredValues == {"testvalue", None}
JsonValues == {[testblob |-> 2], [testblob |-> 3]}
TestKeys == {"testkey", "testjsonkey"}
ExistingKeySets == {{}, {"testold"}}
ScannedKeySets == {TestKeys, TestKeys \cup {"testold"}}

\* What the host answers to the getters that the assertions read.
HostAnswers ==
    [get_config : StoredValues, get_localized_config : StoredValues,
     get_store : StoredValues, get_store_json : JsonValues,
     existing_keys : ExistingKeySets, scanned_keys : ScannedKeySets]

\* lines 159-167
self_test_config(h) ==
    IF h.get_config # "testvalue" THEN "AssertionError"
    ELSE IF h.get_localized_config # "testvalue" THEN "AssertionError"
    ELSE "ok"

\* lines 169-178
self_test_store(h) ==
    IF h.get_store # "testvalue" THEN "AssertionError"
    ELSE IF h.get_store_json # [testblob |-> 2] THEN "AssertionError"
    ELSE IF h.scanned_keys # (TestKeys \cup h.existing_keys) THEN "AssertionError"
    ELSE "ok"

\* lines 108-116: the stages in order; the stages without assertions only call getters
self_test(h) ==
    LET stages == <<"ok", "ok", self_test_config(h), self_test_store(h), "ok", "ok">>
        failed == {i \in 1..Len(stages) : stages[i] # "ok"}
    IN  IF failed = {} THEN "ok"
        ELSE stages[CHOOSE i \in failed : \A j \in failed : i <= j]

RunSelfTestSignals(h) ==
    /\ Enter
    /\ event' = TRUE
    /\ Finish(IF self_test(h) = "ok"
              THEN Returned("run", None, 0, "", <<"Self-test succeeded">>)
              ELSE Raised("run", None, self_test(h)))
    /\ UNCHANGED <<since, workload, coordVars, open>>

\* lines 76-78: an exception of _self_test leaves handle_command
RunSelfTest(h) ==
    /\ Enter
    /\ Finish(IF self_test(h) = "ok"
              THEN Returned("run", None, 0, "", <<"Self-test succeeded">>)
              ELSE Raised("run", None, self_test(h)))
    /\ UNCHANGED <<since, workload, event, coordVars, open>>

----------------------------------------------------------------------------
(* handle_command: config get / get_localized, module.py:97-100 *)

ConfigKeys == {"testkey"}

\* Python str() of a configuration value
Str(v) == IF v = None THEN "None" ELSE v

\* lines 97-98
GetConfig(key, v) ==
    /\ Enter
    /\ Finish(Returned("config get", key, 0, Str(v), <<>>))
    /\ UNCHANGED <<since, workload, event, coordVars, open>>

\* lines 99-100
GetLocalizedConfig(key, v) ==
    /\ Enter
    /\ Finish(Returned("config get_localized", key, 0, Str(v), <<>>))
    /\ UNCHANGED <<since, workload, event, coordVars, open>>

\* lines 104-106
UnknownCommand ==
    /\ Enter
    /\ Finish(Returned("unknown", None, -EINVAL, "", <<"Command not found", "unknown">>))
    /\ UNCHANGED <<since, workload, event, coordVars, open>>

----------------------------------------------------------------------------
(* handle_command: "mgr self-test remote", module.py:101-103 and 218-248.  *)
(* Each self.remote() call either returns or raises an exception of some   *)
(* class; the host decides which.                                          *)

RemoteOutcomes == {"ok", "ImportError", "NameError"}

\* What the host does for each of the four calls, and the modules that
\* mgr_map lists as available but not enabled.
RemoteAnswers ==
    [enabled : RemoteOutcomes, disabled_modules : {{}, {"dashboard"}},
     disabled : RemoteOutcomes, nonexistent : RemoteOutcomes,
     missing_method : RemoteOutcomes]

\* try: remote(...) / except expected: pass / else: raise RuntimeError
ExpectRaiseAnyException(outcome, expected) ==
    IF outcome = "ok" THEN "RuntimeError" ELSE "ok"

\* lines 227-232, 235-240, 243-248: the outcome of one try statement
ExpectRaise(outcome, expected) ==
    IF outcome = expected THEN "ok"
    ELSE IF outcome = "ok" THEN "RuntimeError"
    ELSE outcome

\* lines 218-248: "ok" when the function returns, else the exception leaving it
test_remote_calls(a) ==
    IF a.enabled # "ok" THEN a.enabled
    ELSE IF a.disabled_modules = {} THEN "IndexError"
    ELSE IF ExpectRaise(a.disabled, "ImportError") # "ok"
         THEN ExpectRaise(a.disabled, "ImportError")
    ELSE IF ExpectRaise(a.nonexistent, "ImportError") # "ok"
         THEN ExpectRaise(a.nonexistent, "ImportError")
    ELSE ExpectRaise(a.missing_method, "NameError")

\* lines 101-103
TestRemoteCall(a) ==
    /\ Enter
    /\ Finish(IF test_remote_calls(a) = "ok"
              THEN Returned("remote", None, 0, "", <<"Successfully called">>)
              ELSE Raised("remote", None, test_remote_calls(a)))
    /\ UNCHANGED <<since, workload, event, coordVars, open>>

----------------------------------------------------------------------------
(* serve(), module.py:277-289.  Each comparison reads self._workload anew. *)

Alive == pc \notin {"exited", "dead", "crashed"}

ServeCheckSpamRestarted ==
    /\ pc \in {"top", "dead"}
    /\ pc' = IF workload = WORKLOAD_COMMAND_SPAM THEN "spam_check" ELSE "chk_shutdown"
    /\ UNCHANGED <<since, workload, event, inflight, r, ctlVars>>

\* line 279: if self._workload == WORKLOAD_COMMAND_SPAM -> line 280, else line 281
ServeCheckSpam ==
    /\ pc = "top"
    /\ pc' = IF workload = WORKLOAD_COMMAND_SPAM THEN "spam_check" ELSE "chk_shutdown"
    /\ UNCHANGED <<since, workload, event, inflight, r, ctlVars>>

\* lines 281-283: elif self._workload == SHUTDOWN -> break
ServeCheckShutdown ==
    /\ pc = "chk_shutdown"
    /\ pc' = IF workload = SHUTDOWN THEN "exited" ELSE "chk_throw"
    /\ UNCHANGED <<since, workload, event, inflight, r, ctlVars>>

ServeCheckThrowSwallowed ==
    /\ pc = "chk_throw"
    /\ pc' = "wait"
    /\ UNCHANGED <<since, workload, event, inflight, r, ctlVars>>

\* lines 284-286: elif self._workload == WORKLOAD_THROW_EXCEPTION -> raise RuntimeError
ServeCheckThrow ==
    /\ pc = "chk_throw"
    /\ pc' = IF workload = WORKLOAD_THROW_EXCEPTION THEN "dead" ELSE "wait"
    /\ UNCHANGED <<since, workload, event, inflight, r, ctlVars>>

\* line 288: self._event.wait() returns once the event is set
ServeWait ==
    /\ pc = "wait"
    /\ event
    /\ pc' = "clear"
    /\ UNCHANGED <<since, workload, event, inflight, r, ctlVars>>

\* line 289: self._event.clear()
ServeClear ==
    /\ pc = "clear"
    /\ event' = FALSE
    /\ pc' = "top"
    /\ UNCHANGED <<since, workload, inflight, r, ctlVars>>

----------------------------------------------------------------------------
(* _command_spam(), module.py:255-275 *)

InBody == pc \in {"spam_check", "spam_send", "spam_wait"}

\* line 257: while not self._event.is_set()
SpamCheck ==
    /\ pc = "spam_check"
    /\ pc' = IF event THEN "spam_clear" ELSE "spam_send"
    /\ UNCHANGED <<since, workload, event, inflight, r, ctlVars>>

SpamSendNoWait ==
    /\ pc = "spam_send"
    /\ inflight' = inflight + 1
    /\ since' = IF since = NotTracked \/ since = MaxSends THEN since ELSE since + 1
    /\ pc' = "spam_check"
    /\ UNCHANGED <<workload, event, r, ctlVars>>

\* lines 258-269: read the osdmap, pick an osd and a weight, send_command
SpamSend ==
    /\ pc = "spam_send"
    /\ inflight' = inflight + 1
    /\ since' = IF since = NotTracked \/ since = MaxSends THEN since ELSE since + 1
    /\ pc' = "spam_wait"
    /\ UNCHANGED <<workload, event, r, ctlVars>>

SpamWaitSkipsCheck(status) ==
    /\ pc = "spam_wait"
    /\ inflight' = inflight - 1
    /\ r' = status
    /\ pc' = "spam_send"
    /\ UNCHANGED <<since, workload, event, ctlVars>>

\* lines 271-272: r, outb, outs = result.wait(); the status is not inspected
SpamWait(status) ==
    /\ pc = "spam_wait"
    /\ inflight' = inflight - 1
    /\ r' = status
    /\ pc' = "spam_check"
    /\ UNCHANGED <<since, workload, event, ctlVars>>

\* lines 274-275: self._event.clear(), return to serve()
SpamExit ==
    /\ pc = "spam_clear"
    /\ event' = FALSE
    /\ pc' = "top"
    /\ UNCHANGED <<since, workload, inflight, r, ctlVars>>

\* lines 258-260, 265, 271, 272: a call into the host (get_osdmap, dump,
\* send_command, get_crush().dump(), result.wait()) raises; neither
\* _command_spam nor serve() has a handler, so the exception leaves serve()
SpamRaises ==
    /\ pc \in {"spam_send", "spam_wait"}
    /\ pc' = "crashed"
    /\ UNCHANGED <<since, workload, event, inflight, r, ctlVars>>

----------------------------------------------------------------------------
\* One step of the serve() thread
Coordinator ==
    \/ ServeCheckSpam
    \/ ServeCheckShutdown
    \/ ServeCheckThrow
    \/ ServeWait
    \/ ServeClear
    \/ SpamCheck
    \/ SpamSend
    \/ \E status \in CommandStatuses : SpamWait(status)
    \/ SpamExit

\* The control thread finishes a call it has entered
ControlCompletes ==
    \/ StartSignal
    \/ StopSignal
    \/ ShutdownSignal

\* The control thread enters a call
ControlEnters ==
    \/ \E name \in WorkloadNames : StartRejected(name)
    \/ \E name \in WorkloadNames : StartWrite(name)
    \/ StopWrite
    \/ StopNoop
    \/ ShutdownWrite
    \/ \E h \in HostAnswers : RunSelfTest(h)
    \/ \E key \in ConfigKeys, v \in StoredValues : GetConfig(key, v)
    \/ \E key \in ConfigKeys, v \in StoredValues : GetLocalizedConfig(key, v)
    \/ \E a \in RemoteAnswers : TestRemoteCall(a)
    \/ UnknownCommand

Next ==
    \/ Coordinator
    \/ ControlCompletes
    \/ ControlEnters
    \/ HostCloses

Spec == Init /\ [][Next]_vars

\* The same program with a host whose calls may raise inside _command_spam
NextFaulty ==
    \/ Next
    \/ SpamRaises

SpecFaulty == Init /\ [][NextFaulty]_vars

\* The serve() thread is scheduled and every result.wait() returns; a control
\* call that has been entered runs to its return.
SpecLive == Spec /\ WF_vars(Coordinator) /\ WF_vars(ControlCompletes)

----------------------------------------------------------------------------
(* Vocabulary of the properties *)

\* A step of the control thread that enters a call and returns within the step
ControlReturnsAtOnce ==
    /\ cpc = "ready" /\ cpc' = "ready"
    /\ open' = open
    /\ coordVars' = coordVars

\* The step enters "background start" with this workload name
StartCalled(name) ==
    \/ ControlReturnsAtOnce /\ ret'.op = "start" /\ ret'.arg = name
    \/ cpc = "ready" /\ cpc' = "start_set" /\ arg' = name

\* The step enters "background stop" and returns the no-op answer
StopCalledNoop == ControlReturnsAtOnce /\ ret'.op = "stop"

\* The last completed control call, with none in progress
StartDone(name) ==
    /\ cpc = "ready"
    /\ ret.op = "start" /\ ret.arg = name /\ ret.kind = "tuple" /\ ret.status = 0

StopDone(name) ==
    /\ cpc = "ready"
    /\ ret.op = "stop" /\ ret.outs = <<"Stopping background workload", name>>

ShutdownDone == cpc = "ready" /\ ret.op = "shutdown"

\* The Coordinator is blocked in the wait of line 288 with nothing to do
Idle == pc = "wait" /\ ~event /\ workload = None

----------------------------------------------------------------------------
\* C1: a "background start" whose workload name is outside the registry
\* {command_spam, throw_exception} (the name "shutdown" included) returns
\* -EINVAL within the step and leaves _workload and _event as they were.
C1_InvalidStartRejected ==
    [][\A name \in WorkloadNames \ {"command_spam", "throw_exception"} :
          StartCalled(name) =>
              /\ cpc' = "ready"
              /\ ret'.kind = "tuple" /\ ret'.status = -22
              /\ ret'.outs = <<"Workload not found", name>>
              /\ workload' = workload
              /\ event' = event]_vars

\* C1 witness: "shutdown" was rejected while command_spam is running and signalled
C1_Witness ==
    /\ cpc = "ready"
    /\ ret.op = "start" /\ ret.arg = "shutdown" /\ ret.status = -22
    /\ workload = "command_spam" /\ event /\ InBody

----------------------------------------------------------------------------
\* C5: "background stop" can be called in every state where the control thread
\* is free, and whenever it has returned its status is 0.
C5_StopAlwaysSucceeds ==
    /\ (cpc = "ready" /\ open) => ENABLED (StopWrite \/ StopNoop)
    /\ ret.op = "stop" => (ret.kind = "tuple" /\ ret.status = 0)

\* C5 witness: stop answered "nothing was running" after the Coordinator died
C5_Witness ==
    /\ cpc = "ready"
    /\ ret.op = "stop" /\ ret.status = 0
    /\ ret.outs = <<"No background workload was running">>
    /\ pc = "dead"

----------------------------------------------------------------------------
\* C6: a "background stop" entered while _workload is not None ends with
\* _workload = None and _event set, and its confirmation names the value
\* _workload held when the call was entered.
C6_StopNamesPreviousWorkload ==
    [][/\ (cpc = "stop_set" /\ cpc' = "ready") =>
              /\ workload' = None
              /\ event'
              /\ ret'.op = "stop" /\ ret'.kind = "tuple" /\ ret'.status = 0
              /\ ret'.outs = <<"Stopping background workload", pre>>
              /\ pre # None
       /\ (StopCalledNoop /\ ~(ret' = ret /\ pre' = pre)) => workload = None]_vars

\* C6 witness: the start-then-stop scenario, the confirmation names command_spam
C6_Witness ==
    /\ StopDone("command_spam")
    /\ pre = "command_spam"
    /\ workload = None /\ event

----------------------------------------------------------------------------
\* C8: a "background stop" entered while _workload is None changes neither
\* _workload nor _event nor the Coordinator's position, so a Coordinator
\* blocked in the wait stays blocked.
C8_StopNoopIsPure ==
    [][(StopCalledNoop /\ workload = None) =>
          /\ workload' = workload
          /\ event' = event
          /\ coordVars' = coordVars
          /\ (Idle => Idle')]_vars

\* C8 witness: the no-op answer was given while the Coordinator is blocked
C8_Witness ==
    /\ cpc = "ready"
    /\ ret.op = "stop" /\ ret.outs = <<"No background workload was running">>
    /\ Idle

----------------------------------------------------------------------------
\* C9: every control call returns a (status, message) tuple and none ends by
\* an exception leaving handle_command.
C9_ControlNeverRaises == ret.op # None => ret.kind # "raise"

----------------------------------------------------------------------------
\* The collaborator outcomes that the remote test expects
ExpectedRemoteOutcomes(a) ==
    /\ a.enabled = "ok"
    /\ a.disabled = "ImportError"
    /\ a.nonexistent = "ImportError"
    /\ a.missing_method = "NameError"

----------------------------------------------------------------------------
----------------------------------------------------------------------------
\* C3: once shutdown() has returned while the Coordinator is alive, the
\* Coordinator eventually leaves serve() by the break of line 283, whatever
\* control calls follow.
C3_ShutdownLeadsToExit ==
    [](((ShutdownDone /\ Alive) => <>(pc = "exited")))

----------------------------------------------------------------------------
----------------------------------------------------------------------------
----------------------------------------------------------------------------
\* The operations of handle_command that run wholly on the calling thread
SynchronousOps == {"run", "config get", "config get_localized", "remote"}

\* The step is a call of one of them (it enters and returns within the step)
SynchronousCall ==
    /\ cpc = "ready" /\ cpc' = "ready"
    /\ open' = open
    /\ ret'.op \in SynchronousOps
    /\ (ret' # ret \/ pre' # pre)

\* C11: a call of run, config get, config get_localized or remote, whether it
\* returns or raises, leaves _workload and _event as they were and moves the
\* serve() thread nowhere; a blocked Coordinator stays blocked.
C11_SynchronousCallsFrame ==
    [][SynchronousCall =>
          /\ workload' = workload
          /\ event' = event
          /\ coordVars' = coordVars
          /\ (Idle => Idle')]_vars

\* C11 witness: the self-test failed while command_spam is running with a
\* command in flight
C11_Witness ==
    /\ cpc = "ready"
    /\ ret.op = "run" /\ ret.kind = "raise"
    /\ workload = "command_spam" /\ pc = "spam_wait" /\ ~event

----------------------------------------------------------------------------
\* C12: whenever the Coordinator is blocked in the wait of line 288 with the
\* event clear and no control call is between its write and its set,
\* _workload is None.
C12_NoMissedWakeup ==
    (pc = "wait" /\ ~event /\ cpc = "ready") => workload = None

\* C12 witness: a start entered while nothing was running has written and
\* signalled, serve() has cleared that signal after waking, and the loop is
\* about to read the new workload
C12_Witness ==
    /\ StartDone("command_spam")
    /\ pre = None
    /\ pc = "top" /\ ~event /\ workload = "command_spam"

----------------------------------------------------------------------------
\* C13: once serve() has ended by the exception of line 285 its thread takes
\* no further step: no position change, no command sent or awaited, no clear
\* of the event, whatever control calls follow.
C13_DeadStaysDead ==
    [][pc = "dead" =>
          /\ pc' = "dead"
          /\ inflight' = inflight
          /\ r' = r
          /\ (event => event')]_vars

\* C13 witness: serve() is dead and a later start of command_spam has
\* returned success
C13_Witness ==
    /\ pc = "dead"
    /\ StartDone("command_spam")
    /\ workload = "command_spam" /\ event /\ inflight = 0

----------------------------------------------------------------------------
\* C14: no error inside the body of _command_spam (a command whose result
\* carries a failure status, a host call that fails) ends the serve() thread:
\* every step the thread takes from inside the body leads to the next
\* position of the body or to its regular exit.
C14_BodyErrorsNotFatal ==
    [][(InBody /\ pc' # pc) =>
          pc' \in {"spam_check", "spam_send", "spam_wait", "spam_clear"}]_vars

----------------------------------------------------------------------------
\* C15: a control call never waits for the serve() thread.  Wherever that
\* thread stands, a free control thread can enter every operation, and a
\* call that has written _workload can take its one remaining step, which
\* returns.
C15_ControlNeverWaitsForCoordinator ==
    /\ cpc \in {"ready", "start_set", "stop_set", "shutdown_set"}
    /\ cpc = "start_set" => ENABLED (StartSignal /\ cpc' = "ready")
    /\ cpc = "stop_set" => ENABLED (StopSignal /\ cpc' = "ready")
    /\ cpc = "shutdown_set" => ENABLED (ShutdownSignal /\ cpc' = "ready")
    /\ (cpc = "ready" /\ open) =>
          /\ \A name \in WorkloadNames :
                ENABLED (StartRejected(name) \/ StartWrite(name))
          /\ ENABLED (StopWrite \/ StopNoop)
          /\ ENABLED ShutdownWrite
          /\ \A h \in HostAnswers : ENABLED (RunSelfTest(h) /\ cpc' = "ready")
          /\ \A v \in StoredValues :
                /\ ENABLED (GetConfig("testkey", v) /\ cpc' = "ready")
                /\ ENABLED (GetLocalizedConfig("testkey", v) /\ cpc' = "ready")
          /\ \A a \in RemoteAnswers : ENABLED (TestRemoteCall(a) /\ cpc' = "ready")

\* C15 witness: a stop has written None and has its set still to do while
\* the Coordinator is awaiting the result of a command
C15_Witness ==
    /\ cpc = "stop_set"
    /\ pc = "spam_wait" /\ inflight = 1

----------------------------------------------------------------------------
\* The positions of a control call that has written _workload and has its
\* event.set() still to do
Written == {"start_set", "stop_set", "shutdown_set"}

\* C16: _workload changes only in the step by which a control call writes it,
\* and that step does not touch the event; the next step of that call sets
\* the event and returns, with _workload as written; the event never becomes
\* set by any other step.
C16_WriteBeforeSignal ==
    /\ [][/\ workload' # workload => (cpc = "ready" /\ cpc' \in Written)
          /\ (cpc = "ready" /\ cpc' \in Written) => event' = event
          /\ (cpc \in Written /\ cpc' # cpc) =>
                (cpc' = "ready" /\ event' /\ workload' = workload)
          /\ (~event /\ event') => (cpc \in Written /\ cpc' = "ready")]_vars
    /\ [](cpc \in Written => <>(cpc = "ready"))

\* C16 witness: shutdown() has written SHUTDOWN and not yet set the event
C16_Witness ==
    /\ cpc = "shutdown_set"
    /\ workload = "shutdown" /\ ~event

----------------------------------------------------------------------------
----------------------------------------------------------------------------
\* C18: after a stop has set the event, and as long as no start follows, the
\* body sends at most one more command, and the event stays set for as
\* long as the thread is inside the loop of the body.
C18_StopLatencyOneCommand ==
    /\ since \in {NotTracked, 0, 1}
    /\ (since # NotTracked /\ InBody) => event

\* C18 witness: the stop's signal arrived after the loop condition had been
\* evaluated; the one further command has been sent and is awaited
C18_Witness ==
    /\ since = 1
    /\ pc = "spam_wait" /\ event /\ workload = None
    /\ StopDone("command_spam")

====
